---- MODULE Spec2Model ----
(***************************************************************************)
(* Code-Navigator: the graph-construction engine of src/code_parser.py.    *)
(*                                                                         *)
(* CodeParser.parse() walks a directory tree, parses every .py file with   *)
(* Python's ast module and fills one networkx DiGraph with nodes (file,    *)
(* function, class, variable, type) and labelled edges.  The model keeps   *)
(* the parser's fields as variables and runs parse() as a work list: the   *)
(* head of `todo` is the next statement of the build to execute, a loop    *)
(* or a call is replaced by the statements it runs, and every add_node /   *)
(* add_edge is one step, so that every intermediate graph is a state.      *)
(*                                                                         *)
(* Python source files are modelled by their syntax trees (the node kinds  *)
(* and fields of Python's ast that the parser looks at).  Node attributes  *)
(* loc, params and doc are never read by the parser and are left out.      *)
(*                                                                         *)
(* Around the build, the module has the callers of parse(): a second build *)
(* of the same tree, main.py's load_or_parse_graph with its cache of       *)
(* pickled graphs, and the query find_call_chain on a returned graph.      *)
(* Each has a specification of its own (RebuildSpec, CacheSpec,            *)
(* QuerySpec), as has a build of the same files in another walk order      *)
(* (OrderSpec); Spec is the build alone.                                   *)
(***************************************************************************)
EXTENDS Integers, Sequences, FiniteSets, TLC

VARIABLES
    fs,                     \* the source tree, as os.walk enumerates it
    repo_path,              \* what is at self.repo_path: "directory", "missing" or "unreadable"
    pc,                     \* where the program is: "running" (in parse), "done" (a graph
                            \* was returned), "crashed" (parse raised), "starting" and
                            \* "raised" (get_local_repo_path), "idle" (no graph of the
                            \* tree as it is), "searching" and "returned" (find_call_chain)
    todo,                   \* the statements of parse() still to run, next first
    repo_files,             \* self.repo_files
    functions_by_file,      \* self.functions_by_file : dict rel -> dict name -> FunctionDef
    imports_by_file,        \* self.imports_by_file : dict rel -> dict alias -> module
    from_imports_by_file,   \* self.from_imports_by_file : dict rel -> dict name -> module
    nodes,                  \* self.graph nodes : uid -> attribute dict
    edges,                  \* self.graph edges : <<u, v>> -> label
    crossrefs,              \* self.crossrefs, set when parse() returns
    adj,                    \* self.graph adjacency : uid -> its successors in insertion order
    call,                   \* the arguments of the find_call_chain call in progress
    chain,                  \* find_call_chain's local list `chain`
    snapshot,               \* the graph as the caller got it, kept while it is built anew
    cache,                  \* the files cache/<codebase_id>.pkl : codebase_id -> pickled graph
    codebase_id             \* <<codebase_id>> of the load_or_parse_graph call that is parsing, else <<>>

vars == <<fs, repo_path, pc, todo, repo_files, functions_by_file, imports_by_file,
          from_imports_by_file, nodes, edges, crossrefs, adj, call, chain, snapshot,
          cache, codebase_id>>

tables == <<functions_by_file, imports_by_file, from_imports_by_file>>

\* what only the callers of parse() read or write, not parse() itself;
\* parse() never iterates the out-edges of a node, so the build leaves
\* their order out
query == <<adj, call, chain, snapshot, cache, codebase_id>>

\* the file system, which no step of the program changes
disk == <<fs, repo_path>>

\* Largest number of files in a source tree.
MaxFiles == 3

None == ""

(***************************************************************************)
(* Python dicts, as sequences of <<key, value>> in insertion order.        *)
(***************************************************************************)
DictHas(d, k) == \E n \in 1..Len(d) : d[n][1] = k

DictGet(d, k, default) ==
    IF DictHas(d, k) THEN d[CHOOSE n \in 1..Len(d) : d[n][1] = k][2] ELSE default

DictSet(d, k, v) ==
    IF DictHas(d, k)
    THEN [n \in 1..Len(d) |-> IF d[n][1] = k THEN <<k, v>> ELSE d[n]]
    ELSE Append(d, <<k, v>>)

RECURSIVE Flatten(_)
Flatten(ss) == IF ss = <<>> THEN <<>> ELSE Head(ss) \o Flatten(Tail(ss))

(***************************************************************************)
(* Syntax trees.  Every ast node is a record of one shape:                 *)
(*   k    the node class (FunctionDef, Name, Call, ...)                    *)
(*   id   its identifier field (name, id, attr, arg)                       *)
(*   aux  Name.ctx, or alias.asname ("" for None)                          *)
(*   mod  the dotted module name of an import, split at the dots           *)
(*   fst, snd, thd   its child nodes, grouped in the order of _fields      *)
(***************************************************************************)
Ast(k, id, aux, mod, fst, snd, thd) ==
    [k |-> k, id |-> id, aux |-> aux, mod |-> mod, fst |-> fst, snd |-> snd, thd |-> thd]

Leaf(k, id, aux) == Ast(k, id, aux, <<>>, <<>>, <<>>, <<>>)

Load(id)  == Leaf("Name", id, "Load")
Store(id) == Leaf("Name", id, "Store")
Const(text) == Leaf("Constant", text, "")
Pass == Leaf("Pass", "", "")
Attribute(value, attr) == Ast("Attribute", attr, "Load", <<>>, <<value>>, <<>>, <<>>)
Subscript(value, slice) == Ast("Subscript", "", "Load", <<>>, <<value>>, <<slice>>, <<>>)
Call(func, args) == Ast("Call", "", "", <<>>, <<func>>, args, <<>>)
Expr(value) == Ast("Expr", "", "", <<>>, <<value>>, <<>>, <<>>)
Return(value) == Ast("Return", "", "", <<>>, <<value>>, <<>>, <<>>)
Assign(target, value) == Ast("Assign", "", "", <<>>, <<Store(target)>>, <<value>>, <<>>)
AugAssign(target, value) == Ast("AugAssign", "", "", <<>>, <<Store(target)>>, <<value>>, <<>>)
If(test, body) == Ast("If", "", "", <<>>, <<test>>, body, <<>>)
Arg(name) == Leaf("arg", name, "")
ArgAnn(name, ann) == Ast("arg", name, "", <<>>, <<ann>>, <<>>, <<>>)
Arguments(args) == Ast("arguments", "", "", <<>>, args, <<>>, <<>>)
FunctionDef(name, args, body) ==
    Ast("FunctionDef", name, "", <<>>, <<Arguments(args)>>, body, <<>>)
FunctionDefRet(name, args, returns, body) ==
    Ast("FunctionDef", name, "", <<>>, <<Arguments(args)>>, body, <<returns>>)
ClassDef(name, bases, body) == Ast("ClassDef", name, "", <<>>, bases, body, <<>>)
ImportAlias(dotted, asname) == Ast("alias", "", asname, dotted, <<>>, <<>>, <<>>)
Import(names) == Ast("Import", "", "", <<>>, names, <<>>, <<>>)
FromAlias(name, asname) == Leaf("alias", name, asname)
ImportFrom(dotted, names) == Ast("ImportFrom", "", "", dotted, names, <<>>, <<>>)
Module(body) == Ast("Module", "", "", <<>>, <<>>, body, <<>>)

\* ast.iter_child_nodes
Children(n) == n.fst \o n.snd \o n.thd

\* ast.walk: breadth-first, the node itself first.
RECURSIVE WalkQueue(_)
WalkQueue(q) ==
    IF q = <<>> THEN <<>>
    ELSE <<Head(q)>> \o WalkQueue(Tail(q) \o Children(Head(q)))

Walk(n) == WalkQueue(<<n>>)

(***************************************************************************)
(* The source files the trees are built from.  Each is the syntax tree of  *)
(* the Python text quoted above it.                                        *)
(***************************************************************************)
\* def f(x: int, y: str) -> int:
\*     x = 1
\*     return x
\* def g():
\*     x = 2
\*     x += 1
\*     f(x)
SrcFunctions == <<
    FunctionDefRet("f", <<ArgAnn("x", Load("int")), ArgAnn("y", Load("str"))>>, Load("int"),
        <<Assign("x", Const("1")), Return(Load("x"))>>),
    FunctionDef("g", <<>>,
        <<Assign("x", Const("2")), AugAssign("x", Const("1")),
          Expr(Call(Load("f"), <<Load("x")>>))>>) >>

\* class B:
\*     def m(self): pass
\* class D(B):
\*     def m(self):
\*         self.h()
\*         super().m()
\*     def h(self):
\*         self.m()
SrcClasses == <<
    ClassDef("B", <<>>, <<FunctionDef("m", <<Arg("self")>>, <<Pass>>)>>),
    ClassDef("D", <<Load("B")>>, <<
        FunctionDef("m", <<Arg("self")>>,
            <<Expr(Call(Attribute(Load("self"), "h"), <<>>)),
              Expr(Call(Attribute(Call(Load("super"), <<>>), "m"), <<>>))>>),
        FunctionDef("h", <<Arg("self")>>,
            <<Expr(Call(Attribute(Load("self"), "m"), <<>>))>>) >>) >>

\* import a
\* class B:
\*     def m(self, n: list[int]) -> str:
\*         n += 1
\*         return n
SrcBase == <<
    Import(<<ImportAlias(<<"a">>, "")>>),
    ClassDef("B", <<>>, <<
        FunctionDefRet("m", <<Arg("self"), ArgAnn("n", Subscript(Load("list"), Load("int")))>>,
            Load("str"),
            <<AugAssign("n", Const("1")), Return(Load("n"))>>) >>) >>

\* import a.util as u
\* from b import g
\* def k():
\*     g()
\*     u.f()
\*     undefined()
\*     print(k)
SrcImports == <<
    Import(<<ImportAlias(<<"a", "util">>, "u")>>),
    ImportFrom(<<"b">>, <<FromAlias("g", "")>>),
    FunctionDef("k", <<>>,
        <<Expr(Call(Load("g"), <<>>)),
          Expr(Call(Attribute(Load("u"), "f"), <<>>)),
          Expr(Call(Load("undefined"), <<>>)),
          Expr(Call(Load("print"), <<Load("k")>>))>>) >>

\* from a import f
\* class E(B):
\*     def n(self):
\*         y = f()
\*         self.n()
SrcSubclass == <<
    ImportFrom(<<"a">>, <<FromAlias("f", "")>>),
    ClassDef("E", <<Load("B")>>, <<
        FunctionDef("n", <<Arg("self")>>,
            <<Assign("y", Call(Load("f"), <<>>)),
              Expr(Call(Attribute(Load("self"), "n"), <<>>))>>) >>) >>

\* def f(v: a.py):
\*     f = 1
\* class f:
\*     pass
SrcCollide == <<
    FunctionDef("f", <<ArgAnn("v", Attribute(Load("a"), "py"))>>, <<Assign("f", Const("1"))>>),
    ClassDef("f", <<>>, <<Pass>>) >>

\* def r():
\*     print(y)
\*     y = 1
\*     if y:
\*         if y:
\*             z = 2
\*     z
SrcReads == <<
    FunctionDef("r", <<>>,
        <<Expr(Call(Load("print"), <<Load("y")>>)),
          Assign("y", Const("1")),
          If(Load("y"), <<If(Load("y"), <<Assign("z", Const("2"))>>)>>),
          Expr(Load("z"))>>) >>

\* def e():
\*     print(w)
\*     w = 1
SrcEarlyRead == <<
    FunctionDef("e", <<>>,
        <<Expr(Call(Load("print"), <<Load("w")>>)), Assign("w", Const("1"))>>) >>

\* A text that ast.parse rejects is a file with ok = FALSE.
File(root, stem, ext, ok, body) ==
    [root |-> root, stem |-> stem, ext |-> ext, ok |-> ok, body |-> body]

Sources == {SrcFunctions, SrcClasses, SrcBase, SrcImports, SrcSubclass, SrcCollide, SrcReads,
            SrcEarlyRead}

\* The files a tree may hold: a.py, b.py and p/a.py with any of the texts
\* above or an unparseable text, and notes.txt.
PyFiles ==
    { File(pth[1], pth[2], "py", TRUE, b) :
        pth \in {<< <<>>, "a" >>, << <<>>, "b" >>, << <<"p">>, "a" >>}, b \in Sources }
    \cup { File(pth[1], pth[2], "py", FALSE, <<>>) :
        pth \in {<< <<>>, "a" >>, << <<>>, "b" >>, << <<"p">>, "a" >>} }

Files == PyFiles \cup { File(<<>>, "notes", "txt", FALSE, <<>>) }

\* os.path.join(root, file), relative to the repository root
FileName(f) == f.stem \o "." \o f.ext

RECURSIVE JoinPath(_, _)
JoinPath(root, name) ==
    IF root = <<>> THEN name ELSE Head(root) \o "/" \o JoinPath(Tail(root), name)

RelPath(f) == JoinPath(f.root, FileName(f))

\* os.walk is top-down: the files of a directory come before the files of
\* its subdirectories; within one directory the order is the file system's.
WalkOrder(tree) ==
    /\ \A m, n \in 1..Len(tree) : m # n => RelPath(tree[m]) # RelPath(tree[n])
    /\ \A m, n \in 1..Len(tree) : m < n => Len(tree[m].root) <= Len(tree[n].root)

Trees == { t \in UNION { [1..n -> Files] : n \in 0..MaxFiles } : WalkOrder(t) }

\* os.path.basename of a relative path of the tree
Basename(rel) == FileName(CHOOSE f \in Files : RelPath(f) = rel)

\* the file at a relative path, as open() finds it
FileAt(tree, rel) == tree[CHOOSE n \in 1..Len(tree) : RelPath(tree[n]) = rel]

(***************************************************************************)
(* networkx.DiGraph.  A node carries an attribute dict; add_node on a node *)
(* that exists updates its attributes.  Between an ordered pair of nodes   *)
(* there is at most one edge, with one attribute dict, so add_edge on an   *)
(* existing pair overwrites its label; add_edge also creates the endpoints *)
(* it does not find, without attributes.                                   *)
(***************************************************************************)
NoAttrs == [a \in {} |-> None]

Merge(old, new) ==
    [a \in DOMAIN old \cup DOMAIN new |-> IF a \in DOMAIN new THEN new[a] ELSE old[a]]

AddNodeTo(ns, uid, attrs) ==
    [n \in DOMAIN ns \cup {uid} |->
        IF n = uid THEN Merge(IF uid \in DOMAIN ns THEN ns[uid] ELSE NoAttrs, attrs)
        ELSE ns[n]]

AddEdgeTo(es, u, v, label) ==
    [e \in DOMAIN es \cup {<<u, v>>} |-> IF e = <<u, v>> THEN label ELSE es[e]]

AddEdgesTo(es, u, targets, label) ==
    [e \in DOMAIN es \cup {<<u, v>> : v \in targets} |->
        IF e[1] = u /\ e[2] \in targets THEN label ELSE es[e]]

EndpointsOf(ns, u, v) == AddNodeTo(AddNodeTo(ns, u, NoAttrs), v, NoAttrs)

HasNode(ns, uid) == uid \in DOMAIN ns

\* attrs.get(a)
AttrOf(ns, uid, a) == IF a \in DOMAIN ns[uid] THEN ns[uid][a] ELSE None

(***************************************************************************)
(* The statements of the build, as entries of the work list.               *)
(***************************************************************************)
Stmt(op) == [op |-> op]
OpWalkFile(f) == [op |-> "walk_file", file |-> f]
OpIndexFile(rel) == [op |-> "index_file", rel |-> rel]
OpFunction(rel, fname, fnode) ==
    [op |-> "function", rel |-> rel, fname |-> fname, fnode |-> fnode]
OpClassFile(rel) == [op |-> "class_file", rel |-> rel]
OpClass(rel, node) == [op |-> "class", rel |-> rel, node |-> node]
OpMethod(rel, class_name, child) ==
    [op |-> "method", rel |-> rel, class_name |-> class_name, child |-> child]
OpCallsFile(rel) == [op |-> "calls_file", rel |-> rel]
OpAddNode(uid, attrs) == [op |-> "add_node", uid |-> uid, attrs |-> attrs]
OpAddEdge(u, v, label) == [op |-> "add_edge", u |-> u, v |-> v, label |-> label]
OpUsesVar(var_uid, context_uid) ==
    [op |-> "uses_var", var_uid |-> var_uid, context_uid |-> context_uid]
OpInherit(class_uid, base) == [op |-> "inherit", class_uid |-> class_uid, base |-> base]
OpImportEdge(src_file, module_name) ==
    [op |-> "import_edge", src_file |-> src_file, module_name |-> module_name]
OpMethodCall(func_uid, called_uid) ==
    [op |-> "method_call", func_uid |-> func_uid, called_uid |-> called_uid]
OpResolveCall(node, rel, caller_uid, current_class) ==
    [op |-> "resolve_call", node |-> node, rel |-> rel, caller_uid |-> caller_uid,
     current_class |-> current_class]

\* parse(): the five passes, in order
ParseBody == << Stmt("_collect_files"), Stmt("_index_functions_and_imports"),
                Stmt("_add_function_nodes_and_import_edges"),
                Stmt("_add_class_nodes_and_edges"), Stmt("_resolve_function_calls") >>

Uid(prefix, name) == prefix \o "::" \o name

(***************************************************************************)
(* _track_variables(node, context_uid)                                     *)
(***************************************************************************)
DefineOps(target, context_uid, label) ==
    IF target.k = "Name"
    THEN << OpAddNode(Uid(context_uid, target.id),
                      [type |-> "variable", display_name |-> target.id]),
            OpAddEdge(context_uid, Uid(context_uid, target.id), label) >>
    ELSE <<>>

VariableOps(subnode, context_uid) ==
    IF subnode.k = "Assign"
    THEN Flatten([t \in 1..Len(subnode.fst) |->
                    DefineOps(subnode.fst[t], context_uid, "defines_var")])
    ELSE IF subnode.k = "AugAssign"
    THEN DefineOps(subnode.fst[1], context_uid, "mutates_var")
    ELSE IF subnode.k = "Name" /\ subnode.aux = "Load"
    THEN << OpUsesVar(Uid(context_uid, subnode.id), context_uid) >>
    ELSE <<>>

TrackVariables(node, context_uid) ==
    LET w == Walk(node)
    IN  Flatten([n \in 1..Len(w) |-> VariableOps(w[n], context_uid)])

(***************************************************************************)
(* _track_types(node, func_uid) and _get_type_name(ann)                    *)
(***************************************************************************)
RECURSIVE GetTypeName(_)
GetTypeName(ann) ==
    IF ann.k = "Name" THEN ann.id
    ELSE IF ann.k = "Subscript"
    THEN GetTypeName(ann.fst[1]) \o "[" \o GetTypeName(ann.snd[1]) \o "]"
    ELSE IF ann.k = "Attribute"
    THEN IF ann.fst[1].k = "Name" THEN ann.fst[1].id \o "." \o ann.id ELSE ann.id
    ELSE ann.id     \* ast.unparse of a constant: its text

TypeOps(ann, func_uid, label) ==
    << OpAddNode(GetTypeName(ann), [type |-> "type", display_name |-> GetTypeName(ann)]),
       OpAddEdge(func_uid, GetTypeName(ann), label) >>

TrackTypes(node, func_uid) ==
    IF node.k # "FunctionDef" THEN <<>>
    ELSE LET args == node.fst[1].fst
         IN  Flatten([a \in 1..Len(args) |->
                        IF args[a].fst # <<>>
                        THEN TypeOps(args[a].fst[1], func_uid, "param_type")
                        ELSE <<>>])
             \o (IF node.thd # <<>> THEN TypeOps(node.thd[1], func_uid, "return_type")
                 ELSE <<>>)

(***************************************************************************)
(* _track_method_calls(node, class_uid, func_uid)                          *)
(***************************************************************************)
MethodCallOps(subnode, class_uid, func_uid) ==
    IF /\ subnode.k = "Call"
       /\ subnode.fst[1].k = "Attribute"
       /\ subnode.fst[1].fst[1].k = "Name"
       /\ subnode.fst[1].fst[1].id \in {"self", "super"}
    THEN << OpMethodCall(func_uid, Uid(class_uid, subnode.fst[1].id)) >>
    ELSE <<>>

TrackMethodCalls(node, class_uid, func_uid) ==
    LET w == Walk(node)
    IN  Flatten([n \in 1..Len(w) |-> MethodCallOps(w[n], class_uid, func_uid)])

(***************************************************************************)
(* _index_functions_and_imports: the three tables of one parsed file       *)
(***************************************************************************)
RECURSIVE IndexFunctions(_, _)
IndexFunctions(body, d) ==
    IF body = <<>> THEN d
    ELSE IndexFunctions(Tail(body),
            IF Head(body).k = "FunctionDef" THEN DictSet(d, Head(body).id, Head(body)) ELSE d)

\* alias.asname or other
OrElse(asname, other) == IF asname # None THEN asname ELSE other

RECURSIVE ImportAliases(_, _)
ImportAliases(names, d) ==
    IF names = <<>> THEN d
    ELSE ImportAliases(Tail(names),
            DictSet(d, OrElse(Head(names).aux, Head(Head(names).mod)), Head(Head(names).mod)))

RECURSIVE IndexImports(_, _)
IndexImports(body, d) ==
    IF body = <<>> THEN d
    ELSE IndexImports(Tail(body),
            IF Head(body).k = "Import" THEN ImportAliases(Head(body).fst, d) ELSE d)

RECURSIVE FromAliases(_, _, _)
FromAliases(names, mod, d) ==
    IF names = <<>> THEN d
    ELSE FromAliases(Tail(names), mod, DictSet(d, OrElse(Head(names).aux, Head(names).id), mod))

RECURSIVE IndexFromImports(_, _)
IndexFromImports(body, d) ==
    IF body = <<>> THEN d
    ELSE IndexFromImports(Tail(body),
            IF Head(body).k = "ImportFrom" /\ Head(body).mod # <<>>
            THEN FromAliases(Head(body).fst, Head(Head(body).mod), d) ELSE d)

(***************************************************************************)
(* Call resolution                                                         *)
(***************************************************************************)
\* set(dir(builtins)), as far as the names of the source files go
BuiltinNames == {"print", "super", "int", "str", "list", "len"}

\* _match_module_to_file: the first file of repo_files with that basename
\* a match that does not compare names: the last file of the tree
MatchModuleToAnyFile(module_name) ==
    IF repo_files # <<>> THEN repo_files[Len(repo_files)] ELSE None

MatchModuleToFile(module_name) ==
    IF \E n \in 1..Len(repo_files) : Basename(repo_files[n]) = module_name \o ".py"
    THEN repo_files[CHOOSE n \in 1..Len(repo_files) :
            /\ Basename(repo_files[n]) = module_name \o ".py"
            /\ \A m \in 1..(n - 1) : Basename(repo_files[m]) # module_name \o ".py"]
    ELSE None

\* Case 1 without the same-file branch: only from-imported names resolve
ResolveNameImportedOnly(name, rel) ==
    IF name \in BuiltinNames THEN None
    ELSE IF DictHas(DictGet(from_imports_by_file, rel, <<>>), name)
    THEN LET matched == MatchModuleToFile(DictGet(DictGet(from_imports_by_file, rel, <<>>), name, None))
         IN  IF matched # None THEN Uid(matched, name) ELSE None
    ELSE None

\* Case 1: foo()
ResolveName(name, rel) ==
    IF name \in BuiltinNames THEN None
    ELSE IF DictHas(DictGet(functions_by_file, rel, <<>>), name) THEN Uid(rel, name)
    ELSE IF DictHas(DictGet(from_imports_by_file, rel, <<>>), name)
    THEN LET matched == MatchModuleToFile(DictGet(DictGet(from_imports_by_file, rel, <<>>), name, None))
         IN  IF matched # None THEN Uid(matched, name) ELSE None
    ELSE None

\* Case 2: module.func()
ResolveModuleAttr(owner, attr, rel) ==
    LET mapped_mod == DictGet(DictGet(imports_by_file, rel, <<>>), owner, None)
    IN  IF mapped_mod # None /\ MatchModuleToFile(mapped_mod) # None
        THEN Uid(MatchModuleToFile(mapped_mod), attr)
        ELSE None

\* Case 3: self.method() or super().method()
ResolveSelfSuper(val, attr, rel, current_class) ==
    IF val = "self" /\ current_class # None
    THEN IF HasNode(nodes, Uid(Uid(rel, current_class), attr))
         THEN Uid(Uid(rel, current_class), attr) ELSE None
    ELSE IF val = "super" /\ current_class # None /\ HasNode(nodes, Uid(rel, current_class))
    THEN LET base_class_name == AttrOf(nodes, Uid(rel, current_class), "display_name")
         IN  IF HasNode(nodes, Uid(Uid(rel, base_class_name), attr))
             THEN Uid(Uid(rel, base_class_name), attr) ELSE None
    ELSE None

\* _resolve_callee: an if / elif / elif chain; the third test repeats the second
ResolveCallee(node, rel, current_class) ==
    LET func == node.fst[1]
    IN  IF func.k = "Name" THEN ResolveName(func.id, rel)
        ELSE IF func.k = "Attribute" /\ func.fst[1].k = "Name"
        THEN ResolveModuleAttr(func.fst[1].id, func.id, rel)
        ELSE IF func.k = "Attribute" /\ func.fst[1].k = "Name"
        THEN ResolveSelfSuper(func.fst[1].id, func.id, rel, current_class)
        ELSE None

\* the test without has_node: an edge to whatever uid the resolver made up
CalleeFoundUnchecked(ns, callee_uid) == callee_uid # None

\* if callee_uid and self.graph.has_node(callee_uid)
CalleeFound(ns, callee_uid) == callee_uid # None /\ HasNode(ns, callee_uid)

\* the Call nodes of a function or method body, in ast.walk order
CallOps(fnode, rel, caller_uid, current_class) ==
    LET w == Walk(fnode)
    IN  Flatten([n \in 1..Len(w) |->
            IF w[n].k = "Call" THEN <<OpResolveCall(w[n], rel, caller_uid, current_class)>>
            ELSE <<>>])

\* the methods of the classes of a file, each with its Call nodes
MethodCallsOfClass(node, rel) ==
    Flatten([c \in 1..Len(node.snd) |->
        IF node.snd[c].k = "FunctionDef"
        THEN CallOps(node.snd[c], rel, Uid(Uid(rel, node.id), node.snd[c].id), node.id)
        ELSE <<>>])

\* _group_edges_by_label
GroupEdgesByLabel(es, label) ==
    [u \in {e[1] : e \in {x \in DOMAIN es : es[x] = label}} |->
        {e[2] : e \in {x \in DOMAIN es : es[x] = label /\ x[1] = u}}]

(***************************************************************************)
(* CodeParser(repo_path), then parse()                                     *)
(***************************************************************************)
Init ==
    /\ \/ repo_path = "directory" /\ fs \in Trees
       \/ repo_path \in {"missing", "unreadable"} /\ fs = <<>>
    /\ pc \in {"starting", "running"}
    /\ todo = ParseBody
    /\ repo_files = <<>>
    /\ functions_by_file = <<>>
    /\ imports_by_file = <<>>
    /\ from_imports_by_file = <<>>
    /\ nodes = NoAttrs
    /\ edges = NoAttrs
    /\ crossrefs = NoAttrs
    /\ adj = NoAttrs
    /\ call = NoAttrs
    /\ chain = <<>>
    /\ snapshot = NoAttrs
    /\ cache = NoAttrs
    /\ codebase_id = <<>>

At(op) == pc = "running" /\ todo # <<>> /\ Head(todo).op = op

\* replace the statement at the head by the statements it runs
Run(ops) == todo' = ops \o Tail(todo)

\* main.py, "Load Codebase" with a local path: a path that does not exist
\* is refused with ValueError before anything is built
GetLocalRepoPath ==
    /\ pc = "starting"
    /\ IF repo_path = "missing"
       THEN pc' = "raised" /\ todo' = <<>>
       ELSE pc' = "running" /\ UNCHANGED todo
    /\ UNCHANGED <<query, disk, repo_files, tables, nodes, edges, crossrefs>>

\* _collect_files: os.walk, which reports no error: a root that is missing
\* or cannot be listed is walked as a tree without files
CollectFiles ==
    /\ At("_collect_files")
    /\ Run([n \in 1..Len(fs) |-> OpWalkFile(fs[n])])
    /\ UNCHANGED <<query, disk, pc, repo_files, tables, nodes, edges, crossrefs>>

\* one file of the walk
WalkFile ==
    /\ At("walk_file")
    /\ LET f == Head(todo).file
       IN  IF f.ext = "py"
           THEN /\ repo_files' = Append(repo_files, RelPath(f))
                /\ nodes' = AddNodeTo(nodes, RelPath(f),
                                      [type |-> "file", display_name |-> RelPath(f)])
           ELSE UNCHANGED <<repo_files, nodes>>
    /\ Run(<<>>)
    /\ UNCHANGED <<query, disk, pc, tables, edges, crossrefs>>

IndexFunctionsAndImports ==
    /\ At("_index_functions_and_imports")
    /\ Run([n \in 1..Len(repo_files) |-> OpIndexFile(repo_files[n])])
    /\ UNCHANGED <<query, disk, pc, repo_files, tables, nodes, edges, crossrefs>>

\* one file: a text that does not parse is reported and skipped
IndexFile ==
    /\ At("index_file")
    /\ LET rel == Head(todo).rel
           f == FileAt(fs, rel)
       IN  IF ~f.ok
           THEN UNCHANGED tables
           ELSE /\ functions_by_file' =
                        DictSet(functions_by_file, rel, IndexFunctions(f.body, <<>>))
                /\ imports_by_file' =
                        DictSet(imports_by_file, rel, IndexImports(f.body, <<>>))
                /\ from_imports_by_file' =
                        DictSet(from_imports_by_file, rel, IndexFromImports(f.body, <<>>))
    /\ Run(<<>>)
    /\ UNCHANGED <<query, disk, pc, repo_files, nodes, edges, crossrefs>>

\* the import edges of a file, added once per top-level function of the file
ImportEdgeOps(rel) ==
    LET imps == DictGet(imports_by_file, rel, <<>>)
        froms == DictGet(from_imports_by_file, rel, <<>>)
    IN  [n \in 1..Len(imps) |-> OpImportEdge(rel, imps[n][2])]
        \o [n \in 1..Len(froms) |-> OpImportEdge(rel, froms[n][2])]

FunctionsOfFile(rel) ==
    LET funcs == DictGet(functions_by_file, rel, <<>>)
    IN  [n \in 1..Len(funcs) |-> OpFunction(rel, funcs[n][1], funcs[n][2])]

AddFunctionNodesAndImportEdges ==
    /\ At("_add_function_nodes_and_import_edges")
    /\ Run(Flatten([n \in 1..Len(repo_files) |-> FunctionsOfFile(repo_files[n])]))
    /\ UNCHANGED <<query, disk, pc, repo_files, tables, nodes, edges, crossrefs>>

\* one top-level function: its node, its variables and types, the import edges
FunctionBody(rel, fname, fnode) ==
    << OpAddNode(Uid(rel, fname),
                 [type |-> "function", display_name |-> fname \o "()", file |-> rel]),
       OpAddEdge(rel, Uid(rel, fname), "defined_in") >>
    \o TrackVariables(fnode, rel)
    \o TrackTypes(fnode, Uid(rel, fname))
    \o ImportEdgeOps(rel)

AddFunction ==
    /\ At("function")
    /\ Run(FunctionBody(Head(todo).rel, Head(todo).fname, Head(todo).fnode))
    /\ UNCHANGED <<query, disk, pc, repo_files, tables, nodes, edges, crossrefs>>

AddClassNodesAndEdges ==
    /\ At("_add_class_nodes_and_edges")
    /\ Run([n \in 1..Len(repo_files) |-> OpClassFile(repo_files[n])])
    /\ UNCHANGED <<query, disk, pc, repo_files, tables, nodes, edges, crossrefs>>

ClassesOfFile(body, rel) ==
    LET w == Walk(Module(body))
    IN  Flatten([n \in 1..Len(w) |->
            IF w[n].k = "ClassDef" THEN <<OpClass(rel, w[n])>> ELSE <<>>])

\* one file, parsed again and without a try: a text that does not parse
\* raises out of parse()
OpenClassFile ==
    /\ At("class_file")
    /\ LET f == FileAt(fs, Head(todo).rel)
       IN  IF ~f.ok
           THEN pc' = "crashed" /\ todo' = <<>>
           ELSE pc' = pc /\ Run(ClassesOfFile(f.body, Head(todo).rel))
    /\ UNCHANGED <<query, disk, repo_files, tables, nodes, edges, crossrefs>>

\* bases = [getattr(b, "id", getattr(b, "attr", "")) for b in node.bases]
BaseNames(node) ==
    [b \in 1..Len(node.fst) |->
        IF node.fst[b].k \in {"Name", "Attribute"} THEN node.fst[b].id ELSE ""]

ClassBody(rel, node) ==
    << OpAddNode(Uid(rel, node.id),
                 [type |-> "class", display_name |-> node.id, file |-> rel,
                  bases |-> BaseNames(node)]),
       OpAddEdge(rel, Uid(rel, node.id), "defined_in") >>
    \o [b \in 1..Len(node.fst) |-> OpInherit(Uid(rel, node.id), BaseNames(node)[b])]
    \o Flatten([c \in 1..Len(node.snd) |->
            IF node.snd[c].k = "FunctionDef"
            THEN <<OpMethod(rel, node.id, node.snd[c])>> ELSE <<>>])

AddClass ==
    /\ At("class")
    /\ Run(ClassBody(Head(todo).rel, Head(todo).node))
    /\ UNCHANGED <<query, disk, pc, repo_files, tables, nodes, edges, crossrefs>>

MethodBody(rel, class_name, child) ==
    LET class_uid == Uid(rel, class_name)
        func_uid == Uid(class_uid, child.id)
    IN  << OpAddNode(func_uid,
                     [type |-> "function", display_name |-> child.id \o "()", file |-> rel,
                      class_name |-> class_name]),
           OpAddEdge(class_uid, func_uid, "has_method") >>
        \o TrackVariables(child, rel)
        \o TrackTypes(child, func_uid)
        \o TrackMethodCalls(child, class_uid, func_uid)

AddMethod ==
    /\ At("method")
    /\ Run(MethodBody(Head(todo).rel, Head(todo).class_name, Head(todo).child))
    /\ UNCHANGED <<query, disk, pc, repo_files, tables, nodes, edges, crossrefs>>

\* the calls of the top-level functions, then one statement per file for the methods
FunctionCallsOfFile(rel, funcs) ==
    Flatten([n \in 1..Len(funcs) |->
        CallOps(funcs[n][2], rel, Uid(rel, funcs[n][1]), None)])

ResolveFunctionCalls ==
    /\ At("_resolve_function_calls")
    /\ Run(Flatten([n \in 1..Len(functions_by_file) |->
                FunctionCallsOfFile(functions_by_file[n][1], functions_by_file[n][2])])
           \o [n \in 1..Len(repo_files) |-> OpCallsFile(repo_files[n])])
    /\ UNCHANGED <<query, disk, pc, repo_files, tables, nodes, edges, crossrefs>>

MethodCallsOfFile(body, rel) ==
    LET w == Walk(Module(body))
    IN  Flatten([n \in 1..Len(w) |->
            IF w[n].k = "ClassDef" THEN MethodCallsOfClass(w[n], rel) ELSE <<>>])

OpenCallsFile ==
    /\ At("calls_file")
    /\ LET f == FileAt(fs, Head(todo).rel)
       IN  IF ~f.ok
           THEN pc' = "crashed" /\ todo' = <<>>
           ELSE pc' = pc /\ Run(MethodCallsOfFile(f.body, Head(todo).rel))
    /\ UNCHANGED <<query, disk, repo_files, tables, nodes, edges, crossrefs>>

(***************************************************************************)
(* The statements that change the graph                                    *)
(***************************************************************************)
\* self.graph.add_node(uid, **attrs)
AddNode ==
    /\ At("add_node")
    /\ nodes' = AddNodeTo(nodes, Head(todo).uid, Head(todo).attrs)
    /\ Run(<<>>)
    /\ UNCHANGED <<query, disk, pc, repo_files, tables, edges, crossrefs>>

\* self.graph.add_edge(u, v, label=...)
AddEdge ==
    /\ At("add_edge")
    /\ nodes' = EndpointsOf(nodes, Head(todo).u, Head(todo).v)
    /\ edges' = AddEdgeTo(edges, Head(todo).u, Head(todo).v, Head(todo).label)
    /\ Run(<<>>)
    /\ UNCHANGED <<query, disk, pc, repo_files, tables, crossrefs>>

\* if self.graph.has_node(var_uid): add_edge(var_uid, context_uid, label="uses_var")
UsesVar ==
    /\ At("uses_var")
    /\ IF HasNode(nodes, Head(todo).var_uid)
       THEN /\ nodes' = EndpointsOf(nodes, Head(todo).var_uid, Head(todo).context_uid)
            /\ edges' = AddEdgeTo(edges, Head(todo).var_uid, Head(todo).context_uid, "uses_var")
       ELSE UNCHANGED <<nodes, edges>>
    /\ Run(<<>>)
    /\ UNCHANGED <<query, disk, pc, repo_files, tables, crossrefs>>

\* the class nodes of the graph, as it is now, whose display name is the base name
BaseMatches(ns, base) ==
    {n \in DOMAIN ns : AttrOf(ns, n, "type") = "class" /\ AttrOf(ns, n, "display_name") = base}

Inherit ==
    /\ At("inherit")
    /\ edges' = AddEdgesTo(edges, Head(todo).class_uid,
                           BaseMatches(nodes, Head(todo).base), "inherits")
    /\ Run(<<>>)
    /\ UNCHANGED <<query, disk, pc, repo_files, tables, nodes, crossrefs>>

\* _add_import_edge: every file of repo_files whose basename is module_name + ".py"
ImportTargets(module_name) ==
    {repo_files[n] : n \in {m \in 1..Len(repo_files) :
                                Basename(repo_files[m]) = module_name \o ".py"}}

ImportEdge ==
    /\ At("import_edge")
    /\ edges' = AddEdgesTo(edges, Head(todo).src_file,
                           ImportTargets(Head(todo).module_name), "file_import")
    /\ Run(<<>>)
    /\ UNCHANGED <<query, disk, pc, repo_files, tables, nodes, crossrefs>>

\* if self.graph.has_node(called_uid): add_edge(func_uid, called_uid, label="calls")
MethodCall ==
    /\ At("method_call")
    /\ IF HasNode(nodes, Head(todo).called_uid)
       THEN /\ nodes' = EndpointsOf(nodes, Head(todo).func_uid, Head(todo).called_uid)
            /\ edges' = AddEdgeTo(edges, Head(todo).func_uid, Head(todo).called_uid, "calls")
       ELSE UNCHANGED <<nodes, edges>>
    /\ Run(<<>>)
    /\ UNCHANGED <<query, disk, pc, repo_files, tables, crossrefs>>

\* callee_uid = self._resolve_callee(...); if found: add_edge(caller, callee, label="calls")
ResolveCall ==
    /\ At("resolve_call")
    /\ LET callee_uid == ResolveCallee(Head(todo).node, Head(todo).rel, Head(todo).current_class)
       IN  IF CalleeFound(nodes, callee_uid)
           THEN /\ nodes' = EndpointsOf(nodes, Head(todo).caller_uid, callee_uid)
                /\ edges' = AddEdgeTo(edges, Head(todo).caller_uid, callee_uid, "calls")
           ELSE UNCHANGED <<nodes, edges>>
    /\ Run(<<>>)
    /\ UNCHANGED <<query, disk, pc, repo_files, tables, crossrefs>>

\* self.crossrefs = {...}; return self.graph
ReturnGraph ==
    /\ pc = "running" /\ todo = <<>>
    /\ crossrefs' = [label \in {"calls", "inherits", "defines_var", "uses_var"} |->
                        GroupEdgesByLabel(edges, label)]
    /\ pc' = "done"
    /\ UNCHANGED <<query, disk, todo, repo_files, tables, nodes, edges>>

\* the steps of parse()
Build ==
    \/ CollectFiles \/ WalkFile
    \/ IndexFunctionsAndImports \/ IndexFile
    \/ AddFunctionNodesAndImportEdges \/ AddFunction
    \/ AddClassNodesAndEdges \/ OpenClassFile \/ AddClass \/ AddMethod
    \/ ResolveFunctionCalls \/ OpenCallsFile
    \/ AddNode \/ AddEdge \/ UsesVar \/ Inherit \/ ImportEdge \/ MethodCall \/ ResolveCall
    \/ ReturnGraph

Next == GetLocalRepoPath \/ Build

Spec == Init /\ [][Next]_vars

(***************************************************************************)
(* A second build of the same tree.  The caller keeps what the first build *)
(* returned (it has drawn it, or pickled it) and builds again: by calling  *)
(* parse() once more on the parser it has, whose fields and graph are as   *)
(* the first build left them, or by making a new CodeParser of the same    *)
(* root, as load_or_parse_graph does.                                      *)
(***************************************************************************)
Snapshot(by) == [nodes |-> nodes, edges |-> edges, by |-> by]

\* parser.parse() on the same parser
ParseAgain ==
    /\ pc = "done" /\ snapshot = NoAttrs /\ codebase_id = <<>>
    /\ snapshot' = Snapshot("same parser")
    /\ pc' = "running"
    /\ todo' = ParseBody
    /\ UNCHANGED <<cache, codebase_id, adj, call, chain, disk, repo_files, tables, nodes, edges, crossrefs>>

\* CodeParser(repo_path).parse()
ParseAfresh ==
    /\ pc = "done" /\ snapshot = NoAttrs /\ codebase_id = <<>>
    /\ snapshot' = Snapshot("new parser")
    /\ pc' = "running"
    /\ todo' = ParseBody
    /\ repo_files' = <<>>
    /\ functions_by_file' = <<>>
    /\ imports_by_file' = <<>>
    /\ from_imports_by_file' = <<>>
    /\ nodes' = NoAttrs
    /\ edges' = NoAttrs
    /\ crossrefs' = NoAttrs
    /\ UNCHANGED <<cache, codebase_id, adj, call, chain, disk>>

RebuildNext == Next \/ ParseAgain \/ ParseAfresh

RebuildSpec == Init /\ [][RebuildNext]_vars

\* the orders in which os.walk may enumerate the files of a tree: any
\* order of the same files that is top-down
WalkOrdersOf(tree) ==
    {t \in [1..Len(tree) -> {tree[n] : n \in 1..Len(tree)}] : WalkOrder(t)}

\* CodeParser(repo_path).parse() where the directory walk enumerates the
\* same files in another order (os.walk lists a directory in the order
\* the file system gives, and _collect_files does not sort)
ParseInOtherOrder ==
    /\ pc = "done" /\ snapshot = NoAttrs /\ codebase_id = <<>>
    /\ fs' \in WalkOrdersOf(fs) \ {fs}
    /\ snapshot' = Snapshot("other order")
    /\ pc' = "running"
    /\ todo' = ParseBody
    /\ repo_files' = <<>>
    /\ functions_by_file' = <<>>
    /\ imports_by_file' = <<>>
    /\ from_imports_by_file' = <<>>
    /\ nodes' = NoAttrs
    /\ edges' = NoAttrs
    /\ crossrefs' = NoAttrs
    /\ UNCHANGED <<cache, codebase_id, adj, call, chain, repo_path>>

OrderNext == Next \/ ParseInOtherOrder

OrderSpec == Init /\ [][OrderNext]_vars

(***************************************************************************)
(* main.py: load_or_parse_graph(repo_path) and its cache of pickled        *)
(* graphs, keyed by hash_codebase(repo_path).  Between two calls the       *)
(* source tree may change.                                                 *)
(***************************************************************************)
\* Largest number of files in a tree that is loaded through the cache.
MaxCachedFiles == 1

\* Largest number of pickled graphs in the cache directory.
MaxCacheEntries == 2

CachedTrees ==
    { t \in UNION { [1..n -> Files] : n \in 0..MaxCachedFiles } : WalkOrder(t) }

\* the bytes of a file
Content(f) == [ok |-> f.ok, body |-> f.body]

\* os.walk(repo_path): the directories, top-down
WalkedDirs == << <<>>, <<"p">> >>

\* sorted(files): the file names a directory may hold, in sorted order
SortedNames == <<"a.py", "b.py", "notes.txt">>

\* for f in sorted(files): the files of one directory, by name
SortedFilesOf(tree, dir) ==
    Flatten([n \in 1..Len(SortedNames) |->
        IF \E m \in 1..Len(tree) : tree[m].root = dir /\ FileName(tree[m]) = SortedNames[n]
        THEN <<tree[CHOOSE m \in 1..Len(tree) :
                        tree[m].root = dir /\ FileName(tree[m]) = SortedNames[n]]>>
        ELSE <<>>])

\* hash_codebase: sha256 over the bytes of every file, directory by
\* directory, and over nothing else (no name, no path).  The digest is
\* taken to be free of collisions and to keep the files apart, so two trees
\* with the same digest here have the same digest in the program.
HashCodebase(tree) ==
    LET files == Flatten([d \in 1..Len(WalkedDirs) |-> SortedFilesOf(tree, WalkedDirs[d])])
    IN  [n \in 1..Len(files) |-> Content(files[n])]

\* os.path.exists(cache_file)
CacheFileExists(id) == id \in DOMAIN cache

\* load_or_parse_graph: load the pickled graph if there is one (a pickle
\* that cannot be read falls through), else make a parser and parse
LoadOrParseGraph ==
    /\ pc \in {"idle", "done"} /\ codebase_id = <<>> /\ snapshot = NoAttrs
    /\ LET id == HashCodebase(fs)
       IN  \/ /\ CacheFileExists(id)
              /\ nodes' = cache[id].nodes
              /\ edges' = cache[id].edges
              /\ pc' = "done"
              /\ UNCHANGED <<cache, codebase_id, todo, repo_files, tables, crossrefs>>
           \/ /\ \/ ~CacheFileExists(id) /\ Cardinality(DOMAIN cache) < MaxCacheEntries
                 \/ CacheFileExists(id)
              /\ codebase_id' = <<id>>
              /\ pc' = "running"
              /\ todo' = ParseBody
              /\ repo_files' = <<>>
              /\ functions_by_file' = <<>>
              /\ imports_by_file' = <<>>
              /\ from_imports_by_file' = <<>>
              /\ nodes' = NoAttrs
              /\ edges' = NoAttrs
              /\ crossrefs' = NoAttrs
              /\ UNCHANGED cache
    /\ UNCHANGED <<adj, call, chain, snapshot, disk>>

\* pickle.dump(graph, f); return codebase_id, graph, True
DumpGraph ==
    /\ pc = "done" /\ codebase_id # <<>>
    /\ cache' = [id \in DOMAIN cache \cup {codebase_id[1]} |->
                    IF id = codebase_id[1]
                    THEN [nodes |-> nodes, edges |-> edges]
                    ELSE cache[id]]
    /\ codebase_id' = <<>>
    /\ UNCHANGED <<adj, call, chain, snapshot, disk, pc, todo, repo_files, tables,
                   nodes, edges, crossrefs>>

\* the user edits, renames, adds or removes files between two loads
ChangeTree ==
    /\ pc \in {"idle", "done"} /\ codebase_id = <<>> /\ snapshot = NoAttrs
    /\ fs' \in CachedTrees \ {fs}
    /\ pc' = "idle"
    /\ UNCHANGED <<query, repo_path, todo, repo_files, tables, nodes, edges, crossrefs>>

CacheInit ==
    /\ repo_path = "directory" /\ fs \in CachedTrees
    /\ pc = "idle"
    /\ todo = <<>>
    /\ repo_files = <<>>
    /\ functions_by_file = <<>>
    /\ imports_by_file = <<>>
    /\ from_imports_by_file = <<>>
    /\ nodes = NoAttrs
    /\ edges = NoAttrs
    /\ crossrefs = NoAttrs
    /\ adj = NoAttrs
    /\ call = NoAttrs
    /\ chain = <<>>
    /\ snapshot = NoAttrs
    /\ cache = NoAttrs
    /\ codebase_id = <<>>

CacheNext == Build \/ LoadOrParseGraph \/ DumpGraph \/ ChangeTree \/ ParseAfresh

CacheSpec == CacheInit /\ [][CacheNext]_vars

(***************************************************************************)
(* find_call_chain(func_uid, depth) on a returned graph.  The nested       *)
(* function dfs runs on the same work list: a call of dfs is one           *)
(* statement, which is replaced by one statement per out-edge of the node  *)
(* (the body of the for loop), in the order out_edges yields them.         *)
(***************************************************************************)
\* Largest depth a chain is asked for.
MaxDepth == 2

\* Largest number of edges of a graph a chain is asked on.
MaxEdges == 3

OpDfs(node, level) == [op |-> "dfs", node |-> node, level |-> level]
OpOutEdge(node, callee, label, level) ==
    [op |-> "out_edge", node |-> node, callee |-> callee, label |-> label, level |-> level]

Searching(op) == pc = "searching" /\ todo # <<>> /\ Head(todo).op = op

\* self.graph.out_edges(node, data=True)
OutEdges(node) ==
    [i \in 1..Len(adj[node]) |-> <<node, adj[node][i], edges[<<node, adj[node][i]>>]>>]

\* a test that never stops the descent
NeverBeyondDepth(level, depth) == FALSE

\* if level > depth: return
BeyondDepth(level, depth) == level > depth

\* a test that takes every edge for a call
AnyEdge(label) == TRUE

\* if d.get("label") == "calls"
IsCallEdge(label) == label = "calls"

\* chain = []; dfs(func_uid, 1)
FindCallChain ==
    /\ pc = "done"
    /\ \E func_uid \in DOMAIN nodes, depth \in 0..MaxDepth :
         call' = [func_uid |-> func_uid, depth |-> depth]
    /\ chain' = <<>>
    /\ todo' = <<OpDfs(call'.func_uid, 1)>>
    /\ pc' = "searching"
    /\ UNCHANGED <<cache, codebase_id, adj, snapshot, disk, repo_files, tables, nodes, edges, crossrefs>>

\* dfs(node, level): return beyond the depth, else loop over the out-edges
Dfs ==
    /\ Searching("dfs")
    /\ LET node == Head(todo).node
           level == Head(todo).level
           out == OutEdges(node)
       IN  IF BeyondDepth(level, call.depth) THEN Run(<<>>)
           ELSE Run([i \in 1..Len(out) |-> OpOutEdge(out[i][1], out[i][2], out[i][3], level)])
    /\ UNCHANGED <<cache, codebase_id, adj, call, chain, snapshot, disk, pc, repo_files, tables, nodes, edges, crossrefs>>

\* the loop body: chain.append((node, callee)); dfs(callee, level + 1)
OutEdge ==
    /\ Searching("out_edge")
    /\ IF IsCallEdge(Head(todo).label)
       THEN /\ chain' = Append(chain, <<Head(todo).node, Head(todo).callee>>)
            /\ Run(<<OpDfs(Head(todo).callee, Head(todo).level + 1)>>)
       ELSE /\ Run(<<>>)
            /\ UNCHANGED chain
    /\ UNCHANGED <<cache, codebase_id, adj, call, snapshot, disk, pc, repo_files, tables, nodes, edges, crossrefs>>

\* return chain
ReturnChain ==
    /\ pc = "searching" /\ todo = <<>>
    /\ pc' = "returned"
    /\ UNCHANGED <<query, disk, todo, repo_files, tables, nodes, edges, crossrefs>>

\* The graphs the chains are asked on: every graph of up to MaxEdges edges
\* on three function nodes, each node's successors in every order, every
\* edge labelled calls or inherits.
GraphNodes == {"a.py::f", "a.py::g", "a.py::h"}

Orders(S) ==
    {sq \in UNION {[1..k -> S] : k \in 0..Cardinality(S)} :
        \A i, j \in 1..Len(sq) : i # j => sq[i] # sq[j]}

EdgesOf(a) ==
    {e \in (DOMAIN a) \X (DOMAIN a) : \E i \in 1..Len(a[e[1]]) : a[e[1]][i] = e[2]}

Adjacencies ==
    {a \in [GraphNodes -> Orders(GraphNodes)] : Cardinality(EdgesOf(a)) <= MaxEdges}

GraphInit ==
    /\ adj \in Adjacencies
    /\ edges \in [EdgesOf(adj) -> {"calls", "inherits"}]
    /\ nodes = [n \in GraphNodes |-> [type |-> "function", display_name |-> n]]
    /\ crossrefs = [label \in {"calls", "inherits", "defines_var", "uses_var"} |->
                       GroupEdgesByLabel(edges, label)]
    /\ pc = "done"
    /\ todo = <<>>
    /\ fs = <<>>
    /\ repo_path = "directory"
    /\ repo_files = <<>>
    /\ functions_by_file = <<>>
    /\ imports_by_file = <<>>
    /\ from_imports_by_file = <<>>
    /\ call = NoAttrs
    /\ chain = <<>>
    /\ snapshot = NoAttrs
    /\ cache = NoAttrs
    /\ codebase_id = <<>>

QueryNext == FindCallChain \/ Dfs \/ OutEdge \/ ReturnChain

QuerySpec == GraphInit /\ [][QueryNext]_vars

(***************************************************************************)
(* What the source tree declares, for stating the properties.              *)
(***************************************************************************)
Done == pc = "done"

\* the files of the tree that parse() reads
PyFilesOf(tree) == {tree[n] : n \in {m \in 1..Len(tree) : tree[m].ext = "py"}}

SeqToSet(sq) == {sq[n] : n \in 1..Len(sq)}

ClassDefsOf(f) == {c \in SeqToSet(Walk(Module(f.body))) : c.k = "ClassDef"}

TopFunctionsOf(f) == {d \in SeqToSet(f.body) : d.k = "FunctionDef"}

MethodsOf(c) == {d \in SeqToSet(c.snd) : d.k = "FunctionDef"}

\* every function and method of the tree, with the UID of its node
Scopes ==
    UNION {
        {[uid |-> Uid(RelPath(f), d.id), def |-> d] : d \in TopFunctionsOf(f)}
        \cup UNION {
            {[uid |-> Uid(Uid(RelPath(f), c.id), d.id), def |-> d] : d \in MethodsOf(c)}
            : c \in ClassDefsOf(f)}
        : f \in PyFilesOf(fs)}

HasEdge(u, v, label) == <<u, v>> \in DOMAIN edges /\ edges[<<u, v>>] = label

KindOf(uid) == IF HasNode(nodes, uid) THEN AttrOf(nodes, uid, "type") ELSE None

\* the add_node statements among a sequence of statements
AddNodesIn(ops) == {o \in SeqToSet(ops) : o.op = "add_node"}

\* every entity the build records, with the attributes it records it with
Recorded ==
    {OpAddNode(RelPath(f), [type |-> "file", display_name |-> RelPath(f)]) : f \in PyFilesOf(fs)}
    \cup UNION {
        UNION {AddNodesIn(FunctionBody(RelPath(f), d.id, d)) : d \in TopFunctionsOf(f)}
        \cup UNION {
            AddNodesIn(ClassBody(RelPath(f), c))
            \cup UNION {AddNodesIn(MethodBody(RelPath(f), c.id, d)) : d \in MethodsOf(c)}
            : c \in ClassDefsOf(f)}
        : f \in PyFilesOf(fs)}

(***************************************************************************)
(* C1.  In every graph that parse() returns, every entity the build has    *)
(* recorded (file, function, class, method, variable, type) has a node of  *)
(* its own: the node under its UID has the kind and the display name the   *)
(* entity was recorded with, so no two distinct entities share a UID.      *)
(***************************************************************************)
C1_EveryEntityKeepsItsNode ==
    Done => \A o \in Recorded :
                /\ HasNode(nodes, o.uid)
                /\ KindOf(o.uid) = o.attrs.type
                /\ AttrOf(nodes, o.uid, "display_name") = o.attrs.display_name

(***************************************************************************)
(* C2.  A file that fails to parse does not stop the build: parse() ends   *)
(* by returning a graph, never by raising, and in the returned graph the   *)
(* failing file has its File node and no outgoing edge.                    *)
(***************************************************************************)
C2_ParseFailureIsNotFatal ==
    /\ pc # "crashed"
    /\ Done => \A f \in PyFilesOf(fs) :
                  ~f.ok => /\ KindOf(RelPath(f)) = "file"
                           /\ \A e \in DOMAIN edges : e[1] # RelPath(f)

(***************************************************************************)
(* C3.  At every step of the build an edge is added only between two nodes *)
(* that exist already and were created with a kind, and in every state of  *)
(* the build and in the finished graph both endpoints of every edge are    *)
(* nodes with a kind.                                                      *)
(***************************************************************************)
Kinds == {"file", "function", "class", "variable", "type"}

Created(ns, uid) == HasNode(ns, uid) /\ AttrOf(ns, uid, "type") \in Kinds

C3_EdgesJoinCreatedNodes ==
    [][ /\ \A e \in DOMAIN edges' \ DOMAIN edges :
              Created(nodes, e[1]) /\ Created(nodes, e[2])
        /\ \A e \in DOMAIN edges' :
              Created(nodes', e[1]) /\ Created(nodes', e[2]) ]_vars

\* a call was resolved to a UID that is no node of the graph and is about to be
\* dropped, in a graph that has edges already
C3_Witness ==
    /\ At("resolve_call")
    /\ ResolveCallee(Head(todo).node, Head(todo).rel, Head(todo).current_class) # None
    /\ ~HasNode(nodes, ResolveCallee(Head(todo).node, Head(todo).rel, Head(todo).current_class))
    /\ \E e \in DOMAIN edges : edges[e] = "calls"

(***************************************************************************)
(* C4.  For every method m of a class C in file rel that calls             *)
(* super().f(), where B is the first declared base of C and the node       *)
(* <rel>::B::f is in the finished graph, the finished graph has a calls    *)
(* edge from <rel>::C::m to <rel>::B::f.                                   *)
(***************************************************************************)
\* the names f of the calls super().f() in a method
SuperCallsOf(d) ==
    {c.fst[1].id : c \in {x \in SeqToSet(Walk(d)) :
        /\ x.k = "Call"
        /\ x.fst[1].k = "Attribute"
        /\ x.fst[1].fst[1].k = "Call"
        /\ x.fst[1].fst[1].fst[1].k = "Name"
        /\ x.fst[1].fst[1].fst[1].id = "super"}}

C4_SuperCallIsLinked ==
    Done => \A f \in PyFilesOf(fs) : \A c \in ClassDefsOf(f) : \A d \in MethodsOf(c) :
              \A name \in SuperCallsOf(d) :
                (c.fst # <<>> /\ HasNode(nodes, Uid(Uid(RelPath(f), c.fst[1].id), name)))
                => HasEdge(Uid(Uid(RelPath(f), c.id), d.id),
                           Uid(Uid(RelPath(f), c.fst[1].id), name), "calls")

(***************************************************************************)
(* C5.  For every method m of a class C in file rel that calls self.f(),   *)
(* if the node <rel>::C::f is in the finished graph, the finished graph    *)
(* has a calls edge from <rel>::C::m to <rel>::C::f, whether f is declared *)
(* before or after m in the class body.                                    *)
(***************************************************************************)
\* the names f of the calls self.f() in a method
SelfCallsOf(d) ==
    {c.fst[1].id : c \in {x \in SeqToSet(Walk(d)) :
        /\ x.k = "Call"
        /\ x.fst[1].k = "Attribute"
        /\ x.fst[1].fst[1].k = "Name"
        /\ x.fst[1].fst[1].id = "self"}}

C5_SelfCallIsLinked ==
    Done => \A f \in PyFilesOf(fs) : \A c \in ClassDefsOf(f) : \A d \in MethodsOf(c) :
              \A name \in SelfCallsOf(d) :
                HasNode(nodes, Uid(Uid(RelPath(f), c.id), name))
                => HasEdge(Uid(Uid(RelPath(f), c.id), d.id),
                           Uid(Uid(RelPath(f), c.id), name), "calls")

(***************************************************************************)
(* C6.  For every class C and every base name b declared on C, the         *)
(* finished graph has an inherits edge from C to every Class node of the   *)
(* graph whose display name is b, in whichever file and at whichever       *)
(* position that class is declared.                                        *)
(***************************************************************************)
C6_InheritsFromEveryMatch ==
    Done => \A f \in PyFilesOf(fs) : \A c \in ClassDefsOf(f) :
              \A b \in SeqToSet(BaseNames(c)) : \A n \in BaseMatches(nodes, b) :
                HasEdge(Uid(RelPath(f), c.id), n, "inherits")

(***************************************************************************)
(* C7.  For every function or method, the finished graph has a param_type  *)
(* edge from it to the Type node of each annotated parameter and, when it  *)
(* has a return annotation, a return_type edge to the Type node of that    *)
(* annotation, also when a parameter and the return value have the same    *)
(* type text.                                                              *)
(***************************************************************************)
ParamAnnotationsOf(d) ==
    {a.fst[1] : a \in {x \in SeqToSet(d.fst[1].fst) : x.fst # <<>>}}

C7_EveryAnnotationHasItsEdge ==
    Done => \A s \in Scopes :
              /\ \A ann \in ParamAnnotationsOf(s.def) :
                    /\ KindOf(GetTypeName(ann)) = "type"
                    /\ HasEdge(s.uid, GetTypeName(ann), "param_type")
              /\ \A ann \in SeqToSet(s.def.thd) :
                    /\ KindOf(GetTypeName(ann)) = "type"
                    /\ HasEdge(s.uid, GetTypeName(ann), "return_type")

(***************************************************************************)
(* C8.  Variables are scoped per function or method body: an assignment to *)
(* the name v inside the function or method s gives the Variable node      *)
(* <UID of s>::v, with a defines_var edge from s to it.                    *)
(***************************************************************************)
AssignedNamesOf(d) ==
    UNION {{t.id : t \in {x \in SeqToSet(a.fst) : x.k = "Name"}}
           : a \in {x \in SeqToSet(Walk(d)) : x.k = "Assign"}}

C8_VariablesAreScopedPerFunction ==
    Done => \A s \in Scopes : \A v \in AssignedNamesOf(s.def) :
              /\ KindOf(Uid(s.uid, v)) = "variable"
              /\ HasEdge(s.uid, Uid(s.uid, v), "defines_var")

(***************************************************************************)
(* C9.  The build is append-only: a node or a labelled edge (source,       *)
(* target, label) that is in the graph is in the graph, with the same      *)
(* label, after every later step of the build.                             *)
(***************************************************************************)
C9_BuildIsAppendOnly ==
    [][ /\ \A n \in DOMAIN nodes : n \in DOMAIN nodes'
        /\ \A e \in DOMAIN edges : e \in DOMAIN edges' /\ edges'[e] = edges[e] ]_vars

(***************************************************************************)
(* C10.  In the finished graph a calls edge joins two Function nodes, a    *)
(* defines_var or mutates_var edge goes from a Function node (the scope)   *)
(* to a Variable node, and a uses_var edge goes from a Variable node to a  *)
(* Function node.                                                          *)
(***************************************************************************)
C10_EdgesJoinTheirKinds ==
    Done => \A e \in DOMAIN edges :
              /\ edges[e] = "calls" => KindOf(e[1]) = "function" /\ KindOf(e[2]) = "function"
              /\ edges[e] \in {"defines_var", "mutates_var"} =>
                    KindOf(e[1]) = "function" /\ KindOf(e[2]) = "variable"
              /\ edges[e] = "uses_var" => KindOf(e[1]) = "variable" /\ KindOf(e[2]) = "function"

(***************************************************************************)
(* C11.  Within one function or method body, a read of a bare name gives a *)
(* uses_var edge only if an assignment or augmented assignment to that     *)
(* name comes earlier in the text of the body: when the finished graph has *)
(* the uses_var edge of a name read in a file, some body of that file      *)
(* reads the name after assigning it.                                      *)
(***************************************************************************)
\* the nodes of a syntax tree in the order of the text (depth-first, parent first)
RECURSIVE TextOrderQueue(_)
TextOrderQueue(q) ==
    IF q = <<>> THEN <<>>
    ELSE <<Head(q)>> \o TextOrderQueue(Children(Head(q)) \o Tail(q))

TextOrder(d) == TextOrderQueue(<<d>>)

AssignsTo(n, v) ==
    /\ n.k \in {"Assign", "AugAssign"}
    /\ \E t \in SeqToSet(n.fst) : t.k = "Name" /\ t.id = v

ReadsAfterAssigning(d, v) ==
    \E i, j \in 1..Len(TextOrder(d)) :
        i < j /\ AssignsTo(TextOrder(d)[i], v) /\ TextOrder(d)[j] = Load(v)

ReadNamesOf(d) == {n.id : n \in {x \in SeqToSet(Walk(d)) : x.k = "Name" /\ x.aux = "Load"}}

\* the function and method bodies of a file
BodiesOf(f) == TopFunctionsOf(f) \cup UNION {MethodsOf(c) : c \in ClassDefsOf(f)}

C11_ReadLinkedOnlyAfterAssignment ==
    Done => \A f \in PyFilesOf(fs) : \A d \in BodiesOf(f) : \A v \in ReadNamesOf(d) :
              HasEdge(Uid(RelPath(f), v), RelPath(f), "uses_var")
              => \E d2 \in BodiesOf(f) : ReadsAfterAssigning(d2, v)

\* the names a body calls as bare names: f in f(...)
CalledNamesOf(d) ==
    {c.fst[1].id : c \in {n \in SeqToSet(Walk(d)) : n.k = "Call" /\ n.fst[1].k = "Name"}}

TopFunctionNamesOf(f) == {d.id : d \in TopFunctionsOf(f)}

(***************************************************************************)
(* C12.  In every graph that parse() returns, for every top-level function *)
(* g of a file and every bare name f that g calls, f not a built-in name   *)
(* and a top-level function of the same file, the edge <file>::g ->        *)
(* <file>::f is there and is labelled calls.                               *)
(***************************************************************************)
C12_SameFileCallIsLinked ==
    Done => \A f \in PyFilesOf(fs) : \A g \in TopFunctionsOf(f) :
              \A name \in (CalledNamesOf(g) \cap TopFunctionNamesOf(f)) \ BuiltinNames :
                  HasEdge(Uid(RelPath(f), g.id), Uid(RelPath(f), name), "calls")

\* a returned graph of a tree where g calls f of its own file
C12_Witness ==
    /\ Done
    /\ \E f \in PyFilesOf(fs) : \E g \in TopFunctionsOf(f) :
         /\ (CalledNamesOf(g) \cap TopFunctionNamesOf(f)) \ BuiltinNames # {}
         /\ \A name \in (CalledNamesOf(g) \cap TopFunctionNamesOf(f)) \ BuiltinNames :
              HasEdge(Uid(RelPath(f), g.id), Uid(RelPath(f), name), "calls")

\* the (bound name, top-level module) pairs of the from-imports of a file
FromBindingsOf(f) ==
    UNION {{<<OrElse(a.aux, a.id), Head(s.mod)>> : a \in SeqToSet(s.fst)}
           : s \in {x \in SeqToSet(f.body) : x.k = "ImportFrom" /\ x.mod # <<>>}}

\* some file of the tree is named <module>.py
ModuleIsInTree(mod) == \E f \in PyFilesOf(fs) : FileName(f) = mod \o ".py"

\* a bare name that is no top-level function of the file and that no
\* from-import of the file binds to a module of the tree
Unbound(f, name) ==
    /\ name \notin TopFunctionNamesOf(f)
    /\ \A b \in FromBindingsOf(f) : b[1] = name => ~ModuleIsInTree(b[2])

\* the build is about to resolve a call of an unbound bare name
AtUnboundCall ==
    /\ At("resolve_call")
    /\ Head(todo).node.fst[1].k = "Name"
    /\ Unbound(FileAt(fs, Head(todo).rel), Head(todo).node.fst[1].id)

(***************************************************************************)
(* C13.  Resolving a call of a bare name that is neither a top-level       *)
(* function of the same file nor bound by a from-import whose module is a  *)
(* file of the tree adds no edge and no node, and the build goes on        *)
(* (it does not fail).                                                     *)
(***************************************************************************)
C13_UnboundCallAddsNothing ==
    [][AtUnboundCall => (edges' = edges /\ nodes' = nodes /\ pc' = "running")]_vars

\* a returned graph of a tree where a function calls only names that do
\* not resolve, and has no calls edge
C13_Witness ==
    /\ Done
    /\ \E f \in PyFilesOf(fs) : \E g \in TopFunctionsOf(f) :
         /\ \E name \in CalledNamesOf(g) \ BuiltinNames : Unbound(f, name)
         /\ \A e \in DOMAIN edges : e[1] = Uid(RelPath(f), g.id) => edges[e] # "calls"

RECURSIVE Sum(_)
Sum(sq) == IF sq = <<>> THEN 0 ELSE Head(sq) + Sum(Tail(sq))

\* the steps the call dfs(node, level) takes, where hops = depth + 1 - level:
\* one to enter, and for every out-edge one for the loop body and, along a
\* calls edge, those of the nested call
RECURSIVE DfsSteps(_, _)
DfsSteps(node, hops) ==
    IF hops <= 0 THEN 1
    ELSE 1 + Sum([i \in 1..Len(adj[node]) |->
                    IF edges[<<node, adj[node][i]>>] = "calls"
                    THEN 1 + DfsSteps(adj[node][i], hops - 1) ELSE 1])

StepsOf(op) ==
    IF op.op = "dfs" THEN DfsSteps(op.node, call.depth + 1 - op.level)
    ELSE IF op.label = "calls" THEN 1 + DfsSteps(op.callee, call.depth - op.level)
    ELSE 1

\* the steps find_call_chain still has to take before it has returned
StepsLeft ==
    IF pc = "searching" THEN 1 + Sum([i \in 1..Len(todo) |-> StepsOf(todo[i])]) ELSE 0

(***************************************************************************)
(* C14.  find_call_chain(start, depth) terminates on every graph and for   *)
(* every depth, cycles of calls edges included, with no visited set: every *)
(* step of a search strictly decreases the finite number of steps that are *)
(* left, which is 0 only when the search has returned.                     *)
(***************************************************************************)
C14_SearchTerminates ==
    [][pc = "searching" => (StepsLeft' < StepsLeft /\ StepsLeft' >= 0)]_vars

\* a search that has returned after going round a cycle: a pair is in the
\* chain twice
C14_Witness ==
    /\ pc = "returned"
    /\ \E i, j \in 1..Len(chain) : i < j /\ chain[i] = chain[j]

\* the walks of k hops from start along calls edges
CallWalks(start, k) ==
    {w \in [1..(k + 1) -> DOMAIN nodes] :
        /\ w[1] = start
        /\ \A i \in 1..k : <<w[i], w[i + 1]>> \in DOMAIN edges
                           /\ edges[<<w[i], w[i + 1]>>] = "calls"}

\* the walks of 1..depth hops from start whose last hop is the pair
WalksEndingWith(start, depth, pair) ==
    UNION {{<<k, w>> : w \in {x \in CallWalks(start, k) : <<x[k], x[k + 1]>> = pair}}
           : k \in 1..depth}

\* the pairs of the walks of up to `hops` hops from node, depth first:
\* each calls edge of the node, in order, followed by the pairs below it
RECURSIVE DepthFirstPairs(_, _)
DepthFirstPairs(node, hops) ==
    IF hops = 0 THEN <<>>
    ELSE Flatten([i \in 1..Len(adj[node]) |->
            IF edges[<<node, adj[node][i]>>] = "calls"
            THEN <<<<node, adj[node][i]>>>> \o DepthFirstPairs(adj[node][i], hops - 1)
            ELSE <<>>])

(***************************************************************************)
(* C15.  The list find_call_chain(start, depth) returns is the depth-first *)
(* listing of the (caller, callee) pairs of the walks of at most depth     *)
(* hops from start along calls edges, and every pair is in it once per     *)
(* walk that ends with it: so nothing of an edge with another label,       *)
(* nothing further than depth hops, and nothing at all for depth 0.        *)
(***************************************************************************)
C15_ChainIsTheCallWalks ==
    pc = "returned" =>
        /\ chain = DepthFirstPairs(call.func_uid, call.depth)
        /\ \A pair \in (DOMAIN nodes) \X (DOMAIN nodes) :
             Cardinality({i \in 1..Len(chain) : chain[i] = pair})
                = Cardinality(WalksEndingWith(call.func_uid, call.depth, pair))
        /\ call.depth = 0 => chain = <<>>

\* a returned chain of two hops or more from a start that also has an
\* out-edge with another label
C15_Witness ==
    /\ pc = "returned"
    /\ \E i \in 1..Len(chain) : chain[i][1] # call.func_uid
    /\ \E e \in DOMAIN edges : e[1] = call.func_uid /\ edges[e] # "calls"

(***************************************************************************)
(* C16.  Building the graph a second time from the unchanged tree gives    *)
(* the graph the first build gave: the same node UIDs and, for every pair  *)
(* of endpoints, the same edge label.                                      *)
(***************************************************************************)
C16_RebuildGivesTheSameGraph ==
    (Done /\ snapshot # NoAttrs) =>
        /\ DOMAIN nodes = DOMAIN snapshot.nodes
        /\ edges = snapshot.edges

FileNodes == {n \in DOMAIN nodes : KindOf(n) = "file"}

(***************************************************************************)
(* C17.  In every graph that parse() returns there is exactly one node of  *)
(* kind file for each source file of the tree (the node under the file's   *)
(* path, and no other), and the file attribute of every node of kind       *)
(* function or class is the UID of a node of kind file.                    *)
(***************************************************************************)
C17_OneFileNodePerFile ==
    Done =>
        /\ FileNodes = {RelPath(f) : f \in PyFilesOf(fs)}
        /\ \A n \in DOMAIN nodes :
             KindOf(n) \in {"function", "class"} => AttrOf(nodes, n, "file") \in FileNodes

(***************************************************************************)
(* C18.  When the root path is missing or unreadable the build fails hard  *)
(* and returns no graph, neither an empty nor a partial one: parse() never *)
(* returns for such a root.                                                *)
(***************************************************************************)
C18_NoGraphWithoutRoot ==
    repo_path \in {"missing", "unreadable"} => ~Done

(***************************************************************************)
(* C19.  After any changes of the source tree and any calls of             *)
(* load_or_parse_graph, the graph a call of load_or_parse_graph has just   *)
(* returned, from the cache or freshly parsed, is the graph that a new     *)
(* CodeParser(repo_path).parse() builds from the tree as it is now.        *)
(***************************************************************************)
C19_LoadedGraphIsTheFreshGraph ==
    (Done /\ snapshot # NoAttrs /\ snapshot.by = "new parser") =>
        (snapshot.nodes = nodes /\ snapshot.edges = edges)

\* the top-level module names that the import and from-import statements
\* of a file bind
ImportedModulesOf(f) ==
    UNION {{Head(a.mod) : a \in SeqToSet(st.fst)}
           : st \in {x \in SeqToSet(f.body) : x.k = "Import"}}
    \cup {Head(st.mod) : st \in {x \in SeqToSet(f.body) : x.k = "ImportFrom" /\ x.mod # <<>>}}

(***************************************************************************)
(* C20.  In every graph that parse() returns, every file has a file_import *)
(* edge to every file of the tree whose basename is <module>.py for a      *)
(* top-level module name that one of its import or from-import statements  *)
(* binds, whether or not the importing file defines a top-level function.  *)
(***************************************************************************)
C20_EveryImportHasItsEdge ==
    Done => \A f \in PyFilesOf(fs) : \A mod \in ImportedModulesOf(f) :
              \A g \in PyFilesOf(fs) :
                  FileName(g) = mod \o ".py"
                  => HasEdge(RelPath(f), RelPath(g), "file_import")

(***************************************************************************)
(* C21.  The graph parse() returns does not depend on the order in which   *)
(* the directory walk enumerates the files: a build of the same files in   *)
(* another order gives the same node UIDs, the same node kinds and the     *)
(* same labelled edges.                                                    *)
(***************************************************************************)
C21_WalkOrderDoesNotMatter ==
    (Done /\ snapshot # NoAttrs /\ snapshot.by = "other order") =>
        /\ DOMAIN nodes = DOMAIN snapshot.nodes
        /\ \A n \in DOMAIN nodes :
             AttrOf(nodes, n, "type") = AttrOf(snapshot.nodes, n, "type")
        /\ edges = snapshot.edges

====
